---- MODULE Spec2Model ----
(***************************************************************************)
(* Model of code/model/lgm.py: the large-margin Gaussian-mixture loss      *)
(* modules LGMLoss and LGMLoss_v0 and the utilities of LGMUtils.           *)
(*                                                                         *)
(* Numbers.  Tensor entries are real numbers; the model computes with them *)
(* exactly.  A rational is a pair <<n, d>> in lowest terms with d > 0.     *)
(* A log-variance is a multiple of ln 2, so that torch.exp of it is a      *)
(* power of two and stays rational; a logit is then a value q + l * ln 2   *)
(* with q and l rational, written [q |-> q, l |-> l].  The result of       *)
(* torch.exp on a rational x (get_likelihood) is kept as [exp |-> x], the  *)
(* real number e^x.                                                        *)
(*                                                                         *)
(* Tensors.  A vector is a sequence, a matrix a sequence of rows.  Class   *)
(* labels are the code's 0-based integers; row k of the code is element    *)
(* k + 1 of a sequence.                                                    *)
(***************************************************************************)
EXTENDS Integers, Sequences, FiniteSets, TLC

\* ------------------------------------------------- constants and bounds
\* the feature extractor of the model yields 2-dimensional features
FeatDim == 2

NumClasses == 2
MaxBatch == 2

\* ------------------------------------------------------- exact arithmetic
Abs(n) == IF n < 0 THEN -n ELSE n

RECURSIVE GCD(_, _)
GCD(a, b) == IF b = 0 THEN a ELSE GCD(b, a % b)

\* the rational n / d (d # 0) in lowest terms with a positive denominator
Rat(n, d) ==
    LET s == IF d < 0 THEN -1 ELSE 1
        g == GCD(Abs(n), Abs(d))
    IN  <<(s * n) \div g, (s * d) \div g>>

Zero == <<0, 1>>
One == <<1, 1>>
Half == <<1, 2>>

RAdd(a, b) == Rat(a[1] * b[2] + b[1] * a[2], a[2] * b[2])
RSub(a, b) == Rat(a[1] * b[2] - b[1] * a[2], a[2] * b[2])
RMul(a, b) == Rat(a[1] * b[1], a[2] * b[2])
RDiv(a, b) == Rat(a[1] * b[2], a[2] * b[1])
RLess(a, b) == a[1] * b[2] < b[1] * a[2]

RECURSIVE Pow2(_)
Pow2(n) == IF n = 0 THEN 1 ELSE 2 * Pow2(n - 1)

\* torch.exp of a log-variance n * ln 2 (n an integer): 2^n
ExpLn2(x) == IF x.l[1] >= 0 THEN <<Pow2(x.l[1]), 1>> ELSE <<1, Pow2(-x.l[1])>>

\* torch.exp of a rational x: the real e^x
Exp(x) == [exp |-> x]
ExpLess(a, b) == RLess(a.exp, b.exp)

\* values q + l * ln 2
Lin(q, l) == [q |-> q, l |-> l]
LinRat(q) == Lin(q, Zero)
LinAdd(a, b) == Lin(RAdd(a.q, b.q), RAdd(a.l, b.l))
LinScale(r, a) == Lin(RMul(r, a.q), RMul(r, a.l))

\* 445/642 < ln 2 < 1143/1649 are neighbouring convergents of ln 2: no
\* rational with a denominator below 2291 lies between them, so the sign of
\* q + l * ln 2 is decided exactly for the values the model reaches.
Ln2Lo == <<445, 642>>
Ln2Hi == <<1143, 1649>>
LinPositive(a) ==
    IF a.l[1] = 0 THEN a.q[1] > 0
    ELSE IF a.l[1] > 0 THEN ~RLess(RAdd(a.q, RMul(a.l, Ln2Lo)), Zero)
    ELSE RLess(Zero, RAdd(a.q, RMul(a.l, Ln2Hi)))
LinLess(a, b) == LinPositive(LinAdd(b, LinScale(<<-1, 1>>, a)))

RECURSIVE SumRat(_)
SumRat(s) == IF s = <<>> THEN Zero ELSE RAdd(Head(s), SumRat(Tail(s)))

RECURSIVE SumLin(_)
SumLin(s) == IF s = <<>> THEN LinRat(Zero) ELSE LinAdd(Head(s), SumLin(Tail(s)))

\* ------------------------------------------------------------ tensors
Rows(n) == 1 .. n

\* a call either raises, returns the value the code computes, or (after an
\* out-of-range index on the device, which the code never checks) returns
\* tensors of unspecified content
Raise(e) == [status |-> e, defined |-> FALSE, value |-> <<>>]
Return(v) == [status |-> "returned", defined |-> TRUE, value |-> v]
Unspecified == [status |-> "returned", defined |-> FALSE, value |-> <<>>]

\* label values the indexing kernels accept: 0 .. num_classes - 1
InRange(self, label) ==
    \A j \in Rows(Len(label)) : label[j] >= 0 /\ label[j] < self.num_classes

\* row of an M-row operand that broadcasting pairs with row i of the result
Bcast(i, m) == IF m = 1 THEN 1 ELSE i

\* two batch sizes broadcast against each other
Broadcastable(n, m) == n = m \/ n = 1 \/ m = 1

\* ------------------------------------------------------ LGMLoss.forward
\* dist[i][k] = sum_d (feat[i][d] - centers[k][d])^2 / exp(log_covs[k][d])
LGMLoss_dist(self, feat) ==
    LET covs == [k \in Rows(self.num_classes) |->
                    [d \in Rows(self.feat_dim) |-> ExpLn2(self.log_covs[k][d])]]
        diff == [i \in Rows(Len(feat)) |-> [k \in Rows(self.num_classes) |->
                    [d \in Rows(self.feat_dim) |->
                        RSub(feat[i][d], self.centers[k][d])]]]
        wdiff == [i \in Rows(Len(feat)) |-> [k \in Rows(self.num_classes) |->
                    [d \in Rows(self.feat_dim) |->
                        RDiv(diff[i][k][d], covs[k][d])]]]
    IN  [i \in Rows(Len(feat)) |-> [k \in Rows(self.num_classes) |->
            SumRat([d \in Rows(self.feat_dim) |->
                        RMul(diff[i][k][d], wdiff[i][k][d])])]]

\* y_onehot with 1 scattered in place of alpha
y_onehot_ones(self, batch_size, label) ==
    [i \in Rows(batch_size) |-> [k \in Rows(self.num_classes) |->
        RAdd(IF i <= Len(label) /\ label[i] = k - 1 THEN One ELSE Zero, One)]]

\* y_onehot with alpha scattered one column to the right
y_onehot_next_column(self, batch_size, label) ==
    [i \in Rows(batch_size) |-> [k \in Rows(self.num_classes) |->
        RAdd(IF i <= Len(label) /\ label[i] = k - 2 THEN self.alpha ELSE Zero,
             One)]]

\* zeros, alpha scattered to column label[j] of row j, then + 1.0
y_onehot(self, batch_size, label) ==
    [i \in Rows(batch_size) |-> [k \in Rows(self.num_classes) |->
        RAdd(IF i <= Len(label) /\ label[i] = k - 1 THEN self.alpha ELSE Zero,
             One)]]

margin_dist(self, dist, label) ==
    LET y == y_onehot(self, Len(dist), label)
    IN  [i \in Rows(Len(dist)) |-> [k \in Rows(self.num_classes) |->
            RMul(dist[i][k], y[i][k])]]

\* slog_covs[k] = sum_d log_covs[k][d]
slog_covs(self) ==
    [k \in Rows(self.num_classes) |-> SumLin(self.log_covs[k])]

\* the logits with the sign of the factor lost: 0.5 * (tslog_covs + d)
LGMLoss_logits_positive(self, d) ==
    LET tslog_covs == slog_covs(self)
    IN  [i \in Rows(Len(d)) |-> [k \in Rows(self.num_classes) |->
            LinScale(Half, LinAdd(tslog_covs[k], LinRat(d[i][k])))]]

\* -0.5 * (tslog_covs + d) for d = dist or d = margin_dist
LGMLoss_logits(self, d) ==
    LET tslog_covs == slog_covs(self)
    IN  [i \in Rows(Len(d)) |-> [k \in Rows(self.num_classes) |->
            LinScale(<<-1, 2>>, LinAdd(tslog_covs[k], LinRat(d[i][k])))]]

\* cdiff.pow(2).sum(1).sum(0) with
\* cdiff = feat - index_select(centers, 0, label), broadcast over the batch
cdiff_pow2_sum(self, feat, label) ==
    LET n == IF Len(feat) >= Len(label) THEN Len(feat) ELSE Len(label)
        cdiff == [i \in Rows(n) |-> [d \in Rows(self.feat_dim) |->
                    RSub(feat[Bcast(i, Len(feat))][d],
                         self.centers[label[Bcast(i, Len(label))] + 1][d])]]
    IN  SumRat([i \in Rows(n) |->
                   SumRat([d \in Rows(self.feat_dim) |->
                              RMul(cdiff[i][d], cdiff[i][d])])])

cdist(self, feat, label) == RDiv(cdiff_pow2_sum(self, feat, label), <<2, 1>>)

\* 0.5 * sum_j slog_covs[label[j]]
reg(self, label) ==
    LET s == slog_covs(self)
    IN  LinScale(Half, SumLin([j \in Rows(Len(label)) |-> s[label[j] + 1]]))

\* the mean taken of cdist only: (1.0 / batch_size) * cdist + reg
LGMLoss_likelihood_reg_unscaled(self, feat, label) ==
    LinAdd(LinScale(<<1, Len(feat)>>, LinRat(cdist(self, feat, label))),
           reg(self, label))

\* (1.0 / batch_size) * (cdist + reg)
LGMLoss_likelihood(self, feat, label) ==
    LinScale(<<1, Len(feat)>>,
             LinAdd(LinRat(cdist(self, feat, label)), reg(self, label)))

\* the tensors forward computes when every kernel runs on in-range indices
LGMLoss_value(self, feat, label) ==
    LET dist == LGMLoss_dist(self, feat)
        md == margin_dist(self, dist, label)
    IN  [dist |-> dist,
         margin_dist |-> md,
         logits |-> LGMLoss_logits(self, dist),
         margin_logits |-> LGMLoss_logits(self, md),
         likelihood |-> LGMLoss_likelihood(self, feat, label)]

\* how a call of forward ends: scatter_ rejects an index with more rows than
\* y_onehot; feat - index_select(...) rejects row counts that do not
\* broadcast; an out-of-range label is an index no kernel checks on the host,
\* after which the call raises or returns tensors of unspecified content
forward_ends(self, feat, label) ==
    IF Len(label) > Len(feat) THEN {"RuntimeError"}
    ELSE IF ~Broadcastable(Len(feat), Len(label)) THEN {"RuntimeError"}
    ELSE IF ~InRange(self, label) THEN {"RuntimeError", "unspecified"}
    ELSE {"returned"}

Outcome(end, value) ==
    IF end = "returned" THEN Return(value)
    ELSE IF end = "unspecified" THEN Unspecified
    ELSE Raise(end)

LGMLoss_forward(self, feat, label) ==
    {IF e = "returned" THEN Return(LGMLoss_value(self, feat, label))
                       ELSE Outcome(e, <<>>) : e \in forward_ends(self, feat, label)}

\* --------------------------------------------------- LGMLoss_v0.forward
\* dist[i][k] = sum_d (feat[i][d] - centers[k][d])^2
LGMLoss_v0_dist(self, feat) ==
    LET diff == [i \in Rows(Len(feat)) |-> [k \in Rows(self.num_classes) |->
                    [d \in Rows(self.feat_dim) |->
                        RSub(feat[i][d], self.centers[k][d])]]]
    IN  [i \in Rows(Len(feat)) |-> [k \in Rows(self.num_classes) |->
            SumRat([d \in Rows(self.feat_dim) |->
                        RMul(diff[i][k][d], diff[i][k][d])])]]

\* -0.5 * d for d = dist or d = margin_dist
LGMLoss_v0_logits(self, d) ==
    [i \in Rows(Len(d)) |-> [k \in Rows(self.num_classes) |->
        LinRat(RMul(<<-1, 2>>, d[i][k]))]]

\* the regularizer of LGMLoss_v0 without the division by 2.0
LGMLoss_v0_likelihood_undivided(self, feat, label) ==
    LinRat(RMul(<<1, Len(feat)>>, cdiff_pow2_sum(self, feat, label)))

\* (1.0 / batch_size) * cdiff.pow(2).sum(1).sum(0) / 2.0
LGMLoss_v0_likelihood(self, feat, label) ==
    LinRat(RDiv(RMul(<<1, Len(feat)>>, cdiff_pow2_sum(self, feat, label)),
                <<2, 1>>))

LGMLoss_v0_value(self, feat, label) ==
    LET dist == LGMLoss_v0_dist(self, feat)
        md == margin_dist(self, dist, label)
    IN  [dist |-> dist,
         margin_dist |-> md,
         logits |-> LGMLoss_v0_logits(self, dist),
         margin_logits |-> LGMLoss_v0_logits(self, md),
         likelihood |-> LGMLoss_v0_likelihood(self, feat, label)]

LGMLoss_v0_forward(self, feat, label) ==
    {IF e = "returned" THEN Return(LGMLoss_v0_value(self, feat, label))
                       ELSE Outcome(e, <<>>) : e \in forward_ends(self, feat, label)}

\* ------------------------------------------------------------- LGMUtils
\* model.lgm(feat=..., label=...): the loss module the model carries
lgm_call(self, feat, label) ==
    IF self.kind = "LGMLoss" THEN LGMLoss_forward(self, feat, label)
    ELSE LGMLoss_v0_forward(self, feat, label)

\* torch.max(row, 1)[1]: the 0-based index of the first maximal entry
torch_max_index(row) ==
    (CHOOSE k \in Rows(Len(row)) :
        /\ \A j \in Rows(Len(row)) : ~LinLess(row[k], row[j])
        /\ \A j \in Rows(k - 1) : LinLess(row[j], row[k])) - 1

\* predicted != claimed_class, for the logits of a forward call that returned
predicted_ne(logits, claimed_class) ==
    [i \in Rows(Len(logits)) |->
        torch_max_index(logits[i]) # claimed_class[Bcast(i, Len(claimed_class))]]

\* is_anomalous reading the margined logits of the forward call
is_anomalous_margin_logits(self, claimed_class, feats) ==
    {IF o.defined THEN Return(predicted_ne(o.value.margin_logits, claimed_class)) ELSE o :
        o \in lgm_call(self, feats, claimed_class)}

\* feats is what model(X) extracts from X
is_anomalous(self, claimed_class, feats) ==
    {IF o.defined THEN Return(predicted_ne(o.value.logits, claimed_class)) ELSE o :
        o \in lgm_call(self, feats, claimed_class)}

\* model.lgm.centers[claimed_class]: a negative index counts from the end
fmean_row(self, c) == IF c < 0 THEN c + self.num_classes + 1 ELSE c + 1

\* (feats - fmean).norm(p=2, dim=1)**2
norm2_pow2(self, claimed_class, feats) ==
    LET n == IF Len(feats) >= Len(claimed_class) THEN Len(feats)
                                                 ELSE Len(claimed_class)
    IN  [i \in Rows(n) |->
            SumRat([d \in Rows(self.feat_dim) |->
                LET x == RSub(feats[Bcast(i, Len(feats))][d],
                              self.centers[fmean_row(self,
                                  claimed_class[Bcast(i, Len(claimed_class))])][d])
                IN  RMul(x, x)])]

\* indexing centers accepts -num_classes .. num_classes - 1 
get_likelihood_ends(self, claimed_class, feats) ==
    IF ~Broadcastable(Len(feats), Len(claimed_class)) THEN {"RuntimeError"}
    ELSE IF \E j \in Rows(Len(claimed_class)) :
                \/ claimed_class[j] >= self.num_classes
                \/ claimed_class[j] < -self.num_classes
         THEN {"RuntimeError", "unspecified"}
    ELSE {"returned"}

\* torch.exp(0.5 * n2): the sign of the exponent lost
lkd_positive(n2) == [i \in Rows(Len(n2)) |-> Exp(RMul(Half, n2[i]))]

\* torch.exp(-0.5 * n2)
lkd(n2) == [i \in Rows(Len(n2)) |-> Exp(RMul(<<-1, 2>>, n2[i]))]

get_likelihood(self, claimed_class, feats) ==
    {IF e = "returned"
        THEN Return(lkd(norm2_pow2(self, claimed_class, feats)))
        ELSE Outcome(e, <<>>) : e \in get_likelihood_ends(self, claimed_class, feats)}

\* ------------------------------------------------------ state machine
VARIABLES
    lgm,    \* the loss module model.lgm: its configuration and parameters
    call    \* the operation the caller ran last, its arguments and how it
            \* ended, until the caller has taken the result

vars == <<lgm, call>>

Const(n, x) == [d \in Rows(n) |-> x]

\* centers as torch.randn may draw them or training may leave them
CenterValues ==
    {[k \in Rows(NumClasses) |-> Const(FeatDim, <<10 * (k - 1), 1>>)],
     [k \in Rows(NumClasses) |->
        [d \in Rows(FeatDim) |-> IF d = ((k - 1) % FeatDim) + 1 THEN One ELSE Zero]]}

\* log-variances of one class, as multiples of ln 2
LogCovZero == Const(FeatDim, LinRat(Zero))
LogCovLn2 == Const(FeatDim, Lin(Zero, One))
LogCovMixed ==
    [d \in Rows(FeatDim) |-> IF d = 1 THEN Lin(Zero, <<-1, 1>>) ELSE LinRat(Zero)]

\* log_covs as torch.zeros makes them and as training may leave them
LogCovValues ==
    {[k \in Rows(NumClasses) |-> LogCovZero],
     [k \in Rows(NumClasses) |-> LogCovLn2],
     [k \in Rows(NumClasses) |-> IF k % 2 = 1 THEN LogCovMixed ELSE LogCovLn2],
     [k \in Rows(NumClasses) |-> IF k = 1 THEN LogCovZero ELSE LogCovMixed]}

AlphaValues == {Zero, One}

FeatRowSeq ==
    <<Const(FeatDim, <<1, 10>>),
      Const(FeatDim, <<10, 1>>),
      [d \in Rows(FeatDim) |-> IF d = 1 THEN One ELSE Zero]>>

FeatRows == {FeatRowSeq[r] : r \in Rows(Len(FeatRowSeq))}

\* feature batches, up to the order of the samples: every pairing of features
\* with labels still occurs, since the label batches come in every order
FeatBatches ==
    UNION {{[i \in Rows(n) |-> FeatRowSeq[ix[i]]] :
               ix \in {f \in [Rows(n) -> Rows(Len(FeatRowSeq))] :
                          \A i \in Rows(n - 1) : f[i] <= f[i + 1]}} :
           n \in 1 .. MaxBatch}

\* label batches, with num_classes as the value out of range
LabelBatches == UNION {[Rows(n) -> 0 .. NumClasses] : n \in 1 .. MaxBatch}

NoCall == [op |-> "none", feat |-> <<>>, label |-> <<>>, out |-> Raise("none")]

\* the caller is between two operations: the scripts run one operation at a
\* time and take its result (or its exception) before the next
Idle == call.out.status = "none"

\* LGMLoss.__init__ and LGMLoss_v0.__init__
Init ==
    /\ \E kind \in {"LGMLoss", "LGMLoss_v0"}, alpha \in AlphaValues,
          centers \in CenterValues :
          lgm = [kind |-> kind,
                 num_classes |-> NumClasses,
                 feat_dim |-> FeatDim,
                 alpha |-> alpha,
                 centers |-> centers,
                 log_covs |-> IF kind = "LGMLoss"
                              THEN [k \in Rows(NumClasses) |-> LogCovZero]
                              ELSE <<>>]
    /\ call = NoCall

\* model.load_state_dict(...): trained parameters replace the initial ones
LoadStateDict ==
    /\ Idle
    /\ \E centers \in CenterValues, log_covs \in LogCovValues :
          lgm' = [lgm EXCEPT !.centers = centers,
                             !.log_covs = IF lgm.kind = "LGMLoss" THEN log_covs ELSE <<>>]
    /\ call' = NoCall

\* forward with covs computed in place (log_covs.exp_()): the view made by
\* unsqueeze shares the parameter's storage, so log_covs is overwritten
Forward_exp_in_place(feat, label) ==
    /\ Idle
    /\ lgm.kind = "LGMLoss"
    /\ \E o \in LGMLoss_forward(lgm, feat, label) :
          call' = [op |-> "forward", feat |-> feat, label |-> label, out |-> o]
    /\ lgm' = [lgm EXCEPT !.log_covs =
                  [k \in Rows(lgm.num_classes) |-> [d \in Rows(lgm.feat_dim) |->
                      LinRat(ExpLn2(lgm.log_covs[k][d]))]]]

Forward(feat, label) ==
    /\ Idle
    /\ lgm.kind = "LGMLoss"
    /\ \E o \in LGMLoss_forward(lgm, feat, label) :
          call' = [op |-> "forward", feat |-> feat, label |-> label, out |-> o]
    /\ UNCHANGED lgm

ForwardV0(feat, label) ==
    /\ Idle
    /\ lgm.kind = "LGMLoss_v0"
    /\ \E o \in LGMLoss_v0_forward(lgm, feat, label) :
          call' = [op |-> "forward", feat |-> feat, label |-> label, out |-> o]
    /\ UNCHANGED lgm

IsAnomalous(claimed_class, feats) ==
    /\ Idle
    /\ \E o \in is_anomalous(lgm, claimed_class, feats) :
          call' = [op |-> "is_anomalous", feat |-> feats, label |-> claimed_class,
                   out |-> o]
    /\ UNCHANGED lgm

GetLikelihood(claimed_class, feats) ==
    /\ Idle
    /\ \E o \in get_likelihood(lgm, claimed_class, feats) :
          call' = [op |-> "get_likelihood", feat |-> feats, label |-> claimed_class,
                   out |-> o]
    /\ UNCHANGED lgm

\* the caller takes the result: lkd_hist.extend(lkd.cpu().numpy())
TakeResult ==
    /\ ~Idle
    /\ call' = NoCall
    /\ UNCHANGED lgm

Next ==
    \/ LoadStateDict
    \/ TakeResult
    \/ Idle /\ \E feat \in FeatBatches, label \in LabelBatches : Forward(feat, label)
    \/ Idle /\ \E feat \in FeatBatches, label \in LabelBatches : ForwardV0(feat, label)
    \/ Idle /\ \E feats \in FeatBatches, claimed_class \in LabelBatches :
                  IsAnomalous(claimed_class, feats)
    \/ Idle /\ \E feats \in FeatBatches, claimed_class \in LabelBatches :
                  GetLikelihood(claimed_class, feats)

Spec == Init /\ [][Next]_vars

\* ------------------------------------------------------------- claims
Batch == Rows(Len(call.feat))
Classes == Rows(lgm.num_classes)

\* a forward call of either variant that returned what the code computes
ForwardReturned == call.op = "forward" /\ call.out.defined

\* the label batch is aligned with the feature batch
Aligned == Len(call.label) = Len(call.feat)

\* plain squared Euclidean distance between two vectors
SqDist(x, c) ==
    SumRat([d \in Rows(Len(x)) |-> RMul(RSub(x[d], c[d]), RSub(x[d], c[d]))])

NonZeroLogCovs ==
    /\ lgm.kind = "LGMLoss"
    /\ \E k \in Classes, d \in Rows(lgm.feat_dim) : lgm.log_covs[k][d] # LinRat(Zero)

\* C1: with alpha = 0, forward of either variant returns margin_logits equal
\* to logits, entry by entry.
C1_MarginDisabled ==
    (ForwardReturned /\ lgm.alpha = Zero) =>
        \A i \in Batch, k \in Classes :
            call.out.value.margin_logits[i][k] = call.out.value.logits[i][k]

C1_Witness ==
    /\ ForwardReturned /\ Aligned /\ lgm.alpha = Zero /\ NonZeroLogCovs
    /\ \A i \in Batch : call.out.value.dist[i][call.label[i] + 1] # Zero

\* C9: for aligned batches, the margin-weighted distance is dist * (1 + alpha)
\* at the sample's own label and dist elsewhere, and margin_logits differs
\* from logits at most at the sample's own label.
C9_MarginAtLabelOnly ==
    (ForwardReturned /\ Aligned) =>
        \A i \in Batch, k \in Classes :
            /\ call.out.value.margin_dist[i][k] =
                  IF k - 1 = call.label[i]
                  THEN RMul(call.out.value.dist[i][k], RAdd(One, lgm.alpha))
                  ELSE call.out.value.dist[i][k]
            /\ k - 1 # call.label[i] =>
                  call.out.value.margin_logits[i][k] = call.out.value.logits[i][k]

C9_Witness ==
    /\ ForwardReturned /\ Aligned /\ lgm.alpha = One /\ Len(call.feat) = MaxBatch
    /\ \A i \in Batch :
          call.out.value.margin_logits[i][call.label[i] + 1]
              # call.out.value.logits[i][call.label[i] + 1]

\* the forward value of the loss module the model carries
lgm_value(self, feat, label) ==
    IF self.kind = "LGMLoss" THEN LGMLoss_value(self, feat, label)
    ELSE LGMLoss_v0_value(self, feat, label)

\* k is the first maximal entry of row
IsFirstMax(row, k) ==
    /\ \A j \in Rows(Len(row)) : ~LinLess(row[k], row[j])
    /\ \A j \in Rows(k - 1) : LinLess(row[j], row[k])

ExampleCenters == <<Const(2, Zero), Const(2, <<10, 1>>)>>

\* C2: is_anomalous is false for a sample exactly when the arg-max of the
\* sample's unmargined logits is the claimed class; with centers (0,0) and
\* (10,10) and alpha = 0, feature (0.1,0.1) claimed as class 0 is not
\* anomalous and feature (10,10) claimed as class 0 is.
C2_AnomalousIffArgmaxDiffers ==
    (call.op = "is_anomalous" /\ call.out.defined) =>
        /\ LET logits == lgm_value(lgm, call.feat, call.label).logits
           IN  \A i \in Batch :
                   call.out.value[i] =
                       ~IsFirstMax(logits[i], call.label[Bcast(i, Len(call.label))] + 1)
        /\ (lgm.centers = ExampleCenters /\ lgm.alpha = Zero /\ call.label = <<0>>) =>
              /\ call.feat = <<Const(2, <<1, 10>>)>> => call.out.value = <<FALSE>>
              /\ call.feat = <<Const(2, <<10, 1>>)>> => call.out.value = <<TRUE>>

\* the margined and the unmargined arg-max differ, and the example is run
C2_Witness ==
    /\ call.op = "is_anomalous" /\ call.out.defined /\ lgm.alpha = One
    /\ LET margin_logits == lgm_value(lgm, call.feat, call.label).margin_logits
       IN  \E i \in Batch :
               /\ call.out.value[i] = FALSE
               /\ ~IsFirstMax(margin_logits[i],
                              call.label[Bcast(i, Len(call.label))] + 1)

C2_ExampleWitness ==
    /\ call.op = "is_anomalous" /\ call.out.defined
    /\ lgm.centers = ExampleCenters /\ lgm.alpha = Zero /\ call.label = <<0>>
    /\ call.feat = <<Const(2, <<10, 1>>)>> /\ call.out.value = <<TRUE>>

\* C3: get_likelihood returns exp(-0.5 * d), d the squared Euclidean distance
\* of the feature to the claimed class's center: 1.0 at the center, and never
\* larger for a feature farther from the center than for a nearer one.
C3_LikelihoodOfDistance ==
    (call.op = "get_likelihood" /\ call.out.defined /\ InRange(lgm, call.label)) =>
        \A i \in Rows(Len(call.out.value)) :
            LET x == call.feat[Bcast(i, Len(call.feat))]
                c == call.label[Bcast(i, Len(call.label))]
                center == lgm.centers[c + 1]
            IN  /\ call.out.value[i] = Exp(RMul(<<-1, 2>>, SqDist(x, center)))
                /\ x = center => call.out.value[i] = Exp(Zero)
                /\ \A f \in FeatRows :
                      RLess(SqDist(f, center), SqDist(x, center)) =>
                          \A o \in get_likelihood(lgm, <<c>>, <<f>>) :
                              ~ExpLess(o.value[1], call.out.value[i])

C3_Witness ==
    /\ call.op = "get_likelihood" /\ call.out.defined /\ InRange(lgm, call.label)
    /\ NonZeroLogCovs
    /\ Len(call.out.value) = MaxBatch
    /\ call.out.value[1] = Exp(Zero)
    /\ ExpLess(call.out.value[MaxBatch], call.out.value[1])

AllZeroLogCovs ==
    /\ lgm.kind = "LGMLoss"
    /\ \A k \in Classes, d \in Rows(lgm.feat_dim) : lgm.log_covs[k][d] = LinRat(Zero)

\* C4: with every log_covs entry 0, LGMLoss.forward computes the dist and the
\* three outputs that LGMLoss_v0.forward computes for the same centers,
\* alpha, features and labels.
C4_ZeroLogCovsIsIdentity ==
    (ForwardReturned /\ AllZeroLogCovs) =>
        LET v0 == LGMLoss_v0_value([lgm EXCEPT !.kind = "LGMLoss_v0", !.log_covs = <<>>],
                                   call.feat, call.label)
        IN  /\ call.out.value.dist = v0.dist
            /\ call.out.value.logits = v0.logits
            /\ call.out.value.margin_logits = v0.margin_logits
            /\ call.out.value.likelihood = v0.likelihood

C4_Witness ==
    /\ ForwardReturned /\ AllZeroLogCovs /\ Aligned /\ lgm.alpha = One
    /\ Len(call.feat) = MaxBatch
    /\ call.out.value.likelihood # LinRat(Zero)

\* C5: logits[i][k] is never greater than the logit of class k for a feature
\* equal to center[k].
C5_LogitMaximalAtCenter ==
    ForwardReturned =>
        LET at_center == [k \in Classes |->
                             lgm_value(lgm, <<lgm.centers[k]>>, <<0>>).logits[1][k]]
        IN  \A i \in Batch, k \in Classes :
                ~LinLess(at_center[k], call.out.value.logits[i][k])

C5_Witness ==
    /\ ForwardReturned /\ NonZeroLogCovs
    /\ \E i \in Batch, k \in Classes :
          /\ call.feat[i] = lgm.centers[k]
          /\ \E j \in Batch : LinLess(call.out.value.logits[j][k],
                                      call.out.value.logits[i][k])

\* C6: for aligned batches the regularizer is the batch mean of
\* 0.5 * (plain squared distance to the own-class center)
\* + 0.5 * (sum of the own class's log_covs); LGMLoss_v0 has no log_covs term.
C6_Regularizer ==
    (ForwardReturned /\ Aligned) =>
        call.out.value.likelihood =
            LinScale(<<1, Len(call.feat)>>,
                SumLin([i \in Batch |->
                    LinAdd(LinRat(RMul(Half, SqDist(call.feat[i],
                                                   lgm.centers[call.label[i] + 1]))),
                           IF lgm.kind = "LGMLoss"
                           THEN LinScale(Half, SumLin(lgm.log_covs[call.label[i] + 1]))
                           ELSE LinRat(Zero))]))

C6_Witness ==
    /\ ForwardReturned /\ Aligned /\ NonZeroLogCovs /\ Len(call.feat) = MaxBatch
    /\ \A i \in Batch :
          /\ SqDist(call.feat[i], lgm.centers[call.label[i] + 1]) # Zero
          /\ call.out.value.dist[i][call.label[i] + 1]
                # SqDist(call.feat[i], lgm.centers[call.label[i] + 1])
          /\ SumLin(lgm.log_covs[call.label[i] + 1]) # LinRat(Zero)

\* C7: a forward call with a label outside [0, num_classes) fails with an
\* InvalidLabel error.
C7_InvalidLabelRejected ==
    (call.op = "forward" /\ ~InRange(lgm, call.label)) =>
        call.out.status = "InvalidLabel"

\* C8: a forward call whose feature and label batch sizes differ is surfaced
\* to the caller as a shape error (ShapeMismatch; from this code, the tensor
\* framework's RuntimeError) and never returns a result.  Stated for labels
\* that are all in range, where nothing else can make the call fail.
C8_BatchMismatchRejected ==
    (call.op = "forward" /\ Len(call.label) # Len(call.feat)
                         /\ InRange(lgm, call.label)) =>
        call.out.status \in {"ShapeMismatch", "RuntimeError"}

ShapeOK ==
    /\ Len(lgm.centers) = lgm.num_classes
    /\ \A k \in Classes : Len(lgm.centers[k]) = lgm.feat_dim
    /\ lgm.kind = "LGMLoss" =>
          /\ Len(lgm.log_covs) = lgm.num_classes
          /\ \A k \in Classes : Len(lgm.log_covs[k]) = lgm.feat_dim

Operations == {"forward", "is_anomalous", "get_likelihood"}

\* running the call again on the module as it is now ends the same way
RepeatAgrees ==
    (call.op \in Operations /\ call.out.defined) =>
        {call.out} = (IF call.op = "forward" THEN lgm_call(lgm, call.feat, call.label)
                      ELSE IF call.op = "is_anomalous"
                           THEN is_anomalous(lgm, call.label, call.feat)
                      ELSE get_likelihood(lgm, call.label, call.feat))

\* C10: centers and log_covs have shape (num_classes, feat_dim) from
\* construction on; a call of forward, is_anomalous or get_likelihood leaves
\* every field of the module as it was, and repeating it returns the same.
C10_OperationsKeepModule ==
    /\ ShapeOK
    /\ [][/\ RepeatAgrees
          /\ ShapeOK'
          /\ call'.op \in Operations => lgm' = lgm]_vars

C10_Witness ==
    /\ call.op = "forward" /\ call.out.defined /\ NonZeroLogCovs /\ ShapeOK

====
